---- MODULE Spec2Model ----
(***************************************************************************)
(* Model of the directed-graph relationship store of Q2.py:                *)
(*   DirectedGraph   (_vertices, _adjacency_list)                          *)
(*   Person / Privacy                                                      *)
(*   SocialMediaApp  (graph, users)                                        *)
(* A Python dict is modelled as an insertion-ordered key sequence plus a   *)
(* value function; a Python set as a TLA+ set; list(set) as any ordering   *)
(* of the set.  A method is an operator from the object's state and the    *)
(* arguments to its outcome (return value, raised exception, new state).   *)
(***************************************************************************)
EXTENDS Integers, Sequences, FiniteSets, TLC

VARIABLES
    obj,        \* which object the caller constructed and drives
    graph,      \* the DirectedGraph (on its own, or SocialMediaApp.graph)
    users,      \* SocialMediaApp.users
    last,       \* the last call: method, arguments, outcome
    followed,   \* history: pairs whose follow succeeded and was not undone
    removed,    \* history: pairs whose edge was removed at least once
    created,    \* history: id -> the Person passed to its successful add_user
    nops,       \* number of calls made so far
    left,       \* two-run comparison: the first SocialMediaApp
    right,      \* two-run comparison: the second SocialMediaApp
    lastBoth,   \* two-run comparison: the last call and its outcome in each run
    shown,      \* main(): what the last pass of the menu loop printed
    pc,         \* main(): where main is (at) and, in its two setup loops, the next element (i)
    results,    \* multithreaded_run: the list results
    threads,    \* multithreaded_run: the list threads; per thread its idx and position
    mt,         \* multithreaded_run: the main thread's position and locals
    writes,     \* multithreaded_run history: which worker wrote which slot
    clock,      \* multithreaded_run: time.time_ns(), one tick per step
    hashcall    \* Q1: the last call of folding_hash / insert_to_hash_table and its outcome

vars ==
    <<obj, graph, users, last, followed, removed, created, nops, left, right, lastBoth,
      shown, pc, results, threads, mt, writes, clock, hashcall>>

(* ------------------------------ bounds -------------------------------- *)
MaxOps == 5
MaxPairOps == 4
MaxChoices == 2
MaxICs == 2

\* the ids a caller passes: as in the spec's scenarios
Ids == {"a", "b", "c"}

(* ------------------------- Python primitives -------------------------- *)
None == [none |-> TRUE]

EmptyDict == [keys |-> <<>>, vals |-> <<>>]

Range(s) == {s[i] : i \in DOMAIN s}

Has(d, k) == k \in Range(d.keys)

DictGet(d, k) == IF Has(d, k) THEN d.vals[k] ELSE None

DictSet(d, k, v) ==
    IF Has(d, k)
    THEN [d EXCEPT !.vals = [x \in DOMAIN d.vals |-> IF x = k THEN v ELSE d.vals[x]]]
    ELSE [keys |-> Append(d.keys, k), vals |-> d.vals @@ (k :> v)]

DictValues(d) == [i \in DOMAIN d.keys |-> d.vals[d.keys[i]]]

ListOfSet(S) ==
    {s \in [1..Cardinality(S) -> S] : \A i, j \in DOMAIN s : i # j => s[i] # s[j]}

(* ----------------------------- Person --------------------------------- *)
\* the members of the Privacy enum, and the value of each
PUBLIC == "Privacy.PUBLIC"
PRIVATE == "Privacy.PRIVATE"
Privacy == {PUBLIC, PRIVATE}

PrivacyValue(member) == IF member = PUBLIC THEN "public" ELSE "private"

Person(user_id, name, gender, biography, privacy, age, location) ==
    [user_id |-> user_id, name |-> name, gender |-> gender,
     biography |-> biography, privacy |-> privacy, age |-> age,
     location |-> location]

get_public_info(person) == [user_id |-> person.user_id, name |-> person.name]

\* get_full_info that withholds the details of a PRIVATE profile
get_full_info_Gated(person) ==
    [user_id |-> person.user_id, name |-> person.name,
     gender |-> IF person.privacy = PRIVATE THEN "" ELSE person.gender,
     biography |-> IF person.privacy = PRIVATE THEN "" ELSE person.biography,
     privacy |-> PrivacyValue(person.privacy),
     age |-> IF person.privacy = PRIVATE THEN None ELSE person.age,
     location |-> IF person.privacy = PRIVATE THEN "" ELSE person.location]

get_full_info(person) ==
    [user_id |-> person.user_id, name |-> person.name, gender |-> person.gender,
     biography |-> person.biography, privacy |-> PrivacyValue(person.privacy),
     age |-> person.age, location |-> person.location]

\* the k-th profile a caller may construct for an id: odd k is PUBLIC, even k
\* PRIVATE; profiles 2j-1 and 2j differ in privacy only.
Profile(id, k) ==
    LET j == (k + 1) \div 2 IN
    Person(id, <<"name", j>>,
           IF j % 2 = 1 THEN "Female" ELSE "",
           IF j % 2 = 1 THEN <<"bio", j>> ELSE "",
           IF k % 2 = 1 THEN PUBLIC ELSE PRIVATE,
           IF j % 2 = 1 THEN 20 + j ELSE None,
           IF j % 2 = 1 THEN <<"city", j>> ELSE "")

\* the Person objects a caller passes: a PUBLIC and a PRIVATE one per id
Persons == {Profile(id, k) : id \in Ids, k \in {1, 2}}

(* --------------------------- DirectedGraph ---------------------------- *)
NewGraph == [_vertices |-> EmptyDict, _adjacency_list |-> EmptyDict]

Returns(g, r) == [graph |-> g, ret |-> r, exc |-> "none"]
Raises(g, e) == [graph |-> g, ret |-> None, exc |-> e]

\* add_vertex that records the payload but creates no adjacency entry
add_vertex_NoAdjacency(g, vertex_id, vertex_data) ==
    IF Has(g._vertices, vertex_id)
    THEN Returns(g, FALSE)
    ELSE Returns([g EXCEPT !._vertices = DictSet(@, vertex_id, vertex_data)], TRUE)

add_vertex(g, vertex_id, vertex_data) ==
    IF Has(g._vertices, vertex_id)
    THEN Returns(g, FALSE)
    ELSE Returns([_vertices |-> DictSet(g._vertices, vertex_id, vertex_data),
                  _adjacency_list |-> DictSet(g._adjacency_list, vertex_id, {})],
                 TRUE)

\* add_edge that checks the source vertex only
add_edge_NoTargetCheck(g, from_vertex, to_vertex) ==
    IF ~Has(g._vertices, from_vertex)
    THEN Returns(g, FALSE)
    ELSE IF ~Has(g._adjacency_list, from_vertex)
    THEN Raises(g, "KeyError")
    ELSE IF to_vertex \in g._adjacency_list.vals[from_vertex]
    THEN Returns(g, FALSE)
    ELSE Returns([g EXCEPT !._adjacency_list =
                     DictSet(@, from_vertex, @.vals[from_vertex] \cup {to_vertex})],
                 TRUE)

\* add_edge that also records the reverse edge (an undirected graph)
add_edge_Symmetric(g, from_vertex, to_vertex) ==
    IF ~Has(g._vertices, from_vertex) \/ ~Has(g._vertices, to_vertex)
    THEN Returns(g, FALSE)
    ELSE IF ~Has(g._adjacency_list, from_vertex) \/ ~Has(g._adjacency_list, to_vertex)
    THEN Raises(g, "KeyError")
    ELSE IF to_vertex \in g._adjacency_list.vals[from_vertex]
    THEN Returns(g, FALSE)
    ELSE LET fwd == DictSet(g._adjacency_list, from_vertex,
                            g._adjacency_list.vals[from_vertex] \cup {to_vertex})
         IN Returns([g EXCEPT !._adjacency_list =
                         DictSet(fwd, to_vertex, fwd.vals[to_vertex] \cup {from_vertex})],
                    TRUE)

\* add_edge without the "edge already exists" test
add_edge_NoDuplicateCheck(g, from_vertex, to_vertex) ==
    IF ~Has(g._vertices, from_vertex) \/ ~Has(g._vertices, to_vertex)
    THEN Returns(g, FALSE)
    ELSE IF ~Has(g._adjacency_list, from_vertex)
    THEN Raises(g, "KeyError")
    ELSE Returns([g EXCEPT !._adjacency_list =
                     DictSet(@, from_vertex, @.vals[from_vertex] \cup {to_vertex})],
                 TRUE)

\* add_edge that records the edge before it finds the target missing
add_edge_PartialInsert(g, from_vertex, to_vertex) ==
    IF ~Has(g._vertices, from_vertex)
    THEN Returns(g, FALSE)
    ELSE IF ~Has(g._adjacency_list, from_vertex)
    THEN Raises(g, "KeyError")
    ELSE IF to_vertex \in g._adjacency_list.vals[from_vertex]
    THEN Returns(g, FALSE)
    ELSE Returns([g EXCEPT !._adjacency_list =
                     DictSet(@, from_vertex, @.vals[from_vertex] \cup {to_vertex})],
                 Has(g._vertices, to_vertex))

add_edge(g, from_vertex, to_vertex) ==
    IF ~Has(g._vertices, from_vertex) \/ ~Has(g._vertices, to_vertex)
    THEN Returns(g, FALSE)
    ELSE IF ~Has(g._adjacency_list, from_vertex)
    THEN Raises(g, "KeyError")
    ELSE IF to_vertex \in g._adjacency_list.vals[from_vertex]
    THEN Returns(g, FALSE)
    ELSE Returns([g EXCEPT !._adjacency_list =
                     DictSet(@, from_vertex, @.vals[from_vertex] \cup {to_vertex})],
                 TRUE)

\* remove_edge that calls set.remove without testing membership first
remove_edge_NoMembershipCheck(g, from_vertex, to_vertex) ==
    IF ~Has(g._vertices, from_vertex) \/ ~Has(g._vertices, to_vertex)
    THEN Returns(g, FALSE)
    ELSE IF ~Has(g._adjacency_list, from_vertex)
    THEN Raises(g, "KeyError")
    ELSE IF to_vertex \notin g._adjacency_list.vals[from_vertex]
    THEN Raises(g, "KeyError")
    ELSE Returns([g EXCEPT !._adjacency_list =
                     DictSet(@, from_vertex, @.vals[from_vertex] \ {to_vertex})],
                 TRUE)

\* remove_edge that also deletes the source vertex once it has no edge left
remove_edge_DropsVertex(g, from_vertex, to_vertex) ==
    IF ~Has(g._vertices, from_vertex) \/ ~Has(g._vertices, to_vertex)
    THEN Returns(g, FALSE)
    ELSE IF ~Has(g._adjacency_list, from_vertex)
    THEN Raises(g, "KeyError")
    ELSE IF to_vertex \notin g._adjacency_list.vals[from_vertex]
    THEN Returns(g, FALSE)
    ELSE LET rest == g._adjacency_list.vals[from_vertex] \ {to_vertex}
             Other(k) == k # from_vertex
             Del(d) == [keys |-> SelectSeq(d.keys, Other),
                        vals |-> [k \in DOMAIN d.vals \ {from_vertex} |-> d.vals[k]]]
         IN IF rest = {}
            THEN Returns([_vertices |-> Del(g._vertices),
                          _adjacency_list |-> Del(g._adjacency_list)], TRUE)
            ELSE Returns([g EXCEPT !._adjacency_list = DictSet(@, from_vertex, rest)],
                         TRUE)

\* remove_edge that uses set.discard and reports success for an absent edge
remove_edge_Discard(g, from_vertex, to_vertex) ==
    IF ~Has(g._vertices, from_vertex) \/ ~Has(g._vertices, to_vertex)
    THEN Returns(g, FALSE)
    ELSE IF ~Has(g._adjacency_list, from_vertex)
    THEN Raises(g, "KeyError")
    ELSE Returns([g EXCEPT !._adjacency_list =
                     DictSet(@, from_vertex, @.vals[from_vertex] \ {to_vertex})],
                 TRUE)

remove_edge(g, from_vertex, to_vertex) ==
    IF ~Has(g._vertices, from_vertex) \/ ~Has(g._vertices, to_vertex)
    THEN Returns(g, FALSE)
    ELSE IF ~Has(g._adjacency_list, from_vertex)
    THEN Raises(g, "KeyError")
    ELSE IF to_vertex \notin g._adjacency_list.vals[from_vertex]
    THEN Returns(g, FALSE)
    ELSE Returns([g EXCEPT !._adjacency_list =
                     DictSet(@, from_vertex, @.vals[from_vertex] \ {to_vertex})],
                 TRUE)

\* list_outgoing_adjacent_vertices without the "vertex not in self._vertices" test
list_outgoing_adjacent_vertices_NoGuard(g, vertex) ==
    IF ~Has(g._adjacency_list, vertex)
    THEN {Raises(g, "KeyError")}
    ELSE {Returns(g, l) : l \in ListOfSet(g._adjacency_list.vals[vertex])}

\* the set of outcomes: list(set) may enumerate the set in any order
list_outgoing_adjacent_vertices(g, vertex) ==
    IF ~Has(g._vertices, vertex)
    THEN {Returns(g, <<>>)}
    ELSE IF ~Has(g._adjacency_list, vertex)
    THEN {Raises(g, "KeyError")}
    ELSE {Returns(g, l) : l \in ListOfSet(g._adjacency_list.vals[vertex])}

\* list_incoming_adjacent_vertices that leaves the vertex itself out of the scan
list_incoming_adjacent_vertices_SkipSelf(g, vertex) ==
    IF ~Has(g._vertices, vertex)
    THEN Returns(g, <<>>)
    ELSE LET HasEdge(v) == v # vertex /\ vertex \in g._adjacency_list.vals[v]
         IN Returns(g, SelectSeq(g._adjacency_list.keys, HasEdge))

\* list_incoming_adjacent_vertices that tests the edge in the wrong direction
list_incoming_adjacent_vertices_Reversed(g, vertex) ==
    IF ~Has(g._vertices, vertex)
    THEN Returns(g, <<>>)
    ELSE LET HasEdge(v) == v \in g._adjacency_list.vals[vertex]
         IN Returns(g, SelectSeq(g._adjacency_list.keys, HasEdge))

list_incoming_adjacent_vertices(g, vertex) ==
    IF ~Has(g._vertices, vertex)
    THEN Returns(g, <<>>)
    ELSE LET HasEdge(v) == vertex \in g._adjacency_list.vals[v]
         IN Returns(g, SelectSeq(g._adjacency_list.keys, HasEdge))

get_vertex_data(g, vertex_id) == Returns(g, DictGet(g._vertices, vertex_id))

get_all_vertices(g) == Returns(g, g._vertices.keys)

vertex_exists(g, vertex_id) == Returns(g, Has(g._vertices, vertex_id))

(* --------------------------- SocialMediaApp --------------------------- *)
NewApp == [graph |-> NewGraph, users |-> EmptyDict]

AppReturns(app, r) == [graph |-> app.graph, users |-> app.users, ret |-> r, exc |-> "none"]
AppRaises(app, e) == [graph |-> app.graph, users |-> app.users, ret |-> None, exc |-> e]

\* the outcome of a Facade method that ends with `return self.graph.m(...)`
Delegate(app, r) == [graph |-> r.graph, users |-> app.users, ret |-> r.ret, exc |-> r.exc]

\* add_user that records the Person but registers no vertex
add_user_NoVertex(app, person) ==
    IF Has(app.users, person.user_id)
    THEN AppReturns(app, FALSE)
    ELSE AppReturns([app EXCEPT !.users = DictSet(@, person.user_id, person)], TRUE)

\* add_user that stores the Person before it looks for a duplicate
add_user_Overwrite(app, person) ==
    LET stored == [app EXCEPT !.users = DictSet(@, person.user_id, person)]
    IN Delegate(stored, add_vertex(app.graph, person.user_id, person))

add_user(app, person) ==
    IF Has(app.users, person.user_id)
    THEN AppReturns(app, FALSE)
    ELSE LET stored == [app EXCEPT !.users = DictSet(@, person.user_id, person)]
         IN Delegate(stored, add_vertex(app.graph, person.user_id, person))

\* follow_user with a self-follow guard of its own
follow_user_NoSelf(app, follower_id, followee_id) ==
    IF ~Has(app.users, follower_id) \/ ~Has(app.users, followee_id)
    THEN AppReturns(app, FALSE)
    ELSE IF follower_id = followee_id
    THEN AppReturns(app, FALSE)
    ELSE Delegate(app, add_edge(app.graph, follower_id, followee_id))

\* follow_user that passes its arguments to add_edge in the wrong order
follow_user_Reversed(app, follower_id, followee_id) ==
    IF ~Has(app.users, follower_id) \/ ~Has(app.users, followee_id)
    THEN AppReturns(app, FALSE)
    ELSE Delegate(app, add_edge(app.graph, followee_id, follower_id))

follow_user(app, follower_id, followee_id) ==
    IF ~Has(app.users, follower_id) \/ ~Has(app.users, followee_id)
    THEN AppReturns(app, FALSE)
    ELSE Delegate(app, add_edge(app.graph, follower_id, followee_id))

unfollow_user(app, follower_id, followee_id) ==
    Delegate(app, remove_edge(app.graph, follower_id, followee_id))

\* the list comprehension with a visibility filter added
Resolve_HidePrivate(app, ids) ==
    LET Known(uid) == Has(app.users, uid) /\ app.users.vals[uid].privacy # PRIVATE
        kept == SelectSeq(ids, Known)
    IN [i \in DOMAIN kept |-> app.users.vals[kept[i]]]

\* [self.users[uid] for uid in ids if uid in self.users]
Resolve(app, ids) ==
    LET Known(uid) == Has(app.users, uid)
        kept == SelectSeq(ids, Known)
    IN [i \in DOMAIN kept |-> app.users.vals[kept[i]]]

get_following(app, user_id) ==
    {IF r.exc = "none" THEN AppReturns(app, Resolve(app, r.ret)) ELSE AppRaises(app, r.exc) :
        r \in list_outgoing_adjacent_vertices(app.graph, user_id)}

\* get_followers that returns nothing for a PRIVATE user
get_followers_HidePrivate(app, user_id) ==
    LET r == list_incoming_adjacent_vertices(app.graph, user_id)
    IN IF r.exc # "none" THEN AppRaises(app, r.exc)
       ELSE IF Has(app.users, user_id) /\ app.users.vals[user_id].privacy = PRIVATE
       THEN AppReturns(app, <<>>)
       ELSE AppReturns(app, Resolve(app, r.ret))

get_followers(app, user_id) ==
    LET r == list_incoming_adjacent_vertices(app.graph, user_id)
    IN IF r.exc = "none" THEN AppReturns(app, Resolve(app, r.ret)) ELSE AppRaises(app, r.exc)

get_all_users(app) == AppReturns(app, DictValues(app.users))

get_user(app, user_id) == AppReturns(app, DictGet(app.users, user_id))

(* ------------------------------ state --------------------------------- *)
App == [graph |-> graph, users |-> users]

Call(op, args, r) == [op |-> op, args |-> args, ret |-> r.ret, exc |-> r.exc]

Succeeded(r) == r.exc = "none" /\ r.ret = TRUE

NoCall == [op |-> "init", args |-> <<>>, ret |-> None, exc |-> "none"]

\* the state of everything the caller has constructed
Fresh ==
    /\ graph = NewGraph
    /\ users = EmptyDict
    /\ last = NoCall
    /\ followed = {}
    /\ removed = {}
    /\ created = <<>>
    /\ nops = 0
    /\ left = NewApp
    /\ right = NewApp
    /\ lastBoth = [op |-> "init", left |-> NoCall, right |-> NoCall]
    /\ shown = {}
    /\ pc = [at |-> "none", i |-> 0]

\* Q3 and Q1 are separate scripts: nothing of them exists while Q2 runs
Idle ==
    /\ results = <<>>
    /\ threads = <<>>
    /\ mt = [at |-> "none"]
    /\ writes = {}
    /\ clock = 0
    /\ hashcall = NoCall

\* the caller constructs either a DirectedGraph or a SocialMediaApp
Init ==
    /\ obj \in {"DirectedGraph", "SocialMediaApp"}
    /\ Fresh
    /\ Idle

\* one call on the Facade: the state becomes the outcome's state
AppStep(op, args, r) ==
    /\ obj = "SocialMediaApp"
    /\ nops < MaxOps
    /\ graph' = r.graph
    /\ users' = r.users
    /\ last' = Call(op, args, r)
    /\ followed' = IF op = "follow_user" /\ Succeeded(r)
                     THEN followed \cup {<<args[1], args[2]>>}
                   ELSE IF op = "unfollow_user" /\ Succeeded(r)
                     THEN followed \ {<<args[1], args[2]>>}
                   ELSE followed
    /\ removed' = IF op = "unfollow_user" /\ Succeeded(r)
                    THEN removed \cup {<<args[1], args[2]>>}
                  ELSE removed
    /\ created' = IF op = "add_user" /\ Succeeded(r) /\ args[1].user_id \notin DOMAIN created
                    THEN created @@ (args[1].user_id :> args[1])
                  ELSE created
    /\ nops' = nops + 1
    /\ UNCHANGED <<obj, left, right, lastBoth, shown, pc,
                 results, threads, mt, writes, clock, hashcall>>

\* one call on a DirectedGraph used on its own
GraphStep(op, args, r) ==
    /\ obj = "DirectedGraph"
    /\ nops < MaxOps
    /\ graph' = r.graph
    /\ last' = Call(op, args, r)
    /\ removed' = IF op = "remove_edge" /\ Succeeded(r)
                    THEN removed \cup {<<args[1], args[2]>>}
                  ELSE removed
    /\ nops' = nops + 1
    /\ UNCHANGED <<obj, users, followed, created, left, right, lastBoth, shown, pc,
                 results, threads, mt, writes, clock, hashcall>>

(* ----------------------- SocialMediaApp actions ----------------------- *)
AddUser ==
    \E person \in Persons : AppStep("add_user", <<person>>, add_user(App, person))

FollowUser ==
    \E a, b \in Ids : AppStep("follow_user", <<a, b>>, follow_user(App, a, b))

UnfollowUser ==
    \E a, b \in Ids : AppStep("unfollow_user", <<a, b>>, unfollow_user(App, a, b))

GetFollowing ==
    \E u \in Ids : \E r \in get_following(App, u) : AppStep("get_following", <<u>>, r)

GetFollowers ==
    \E u \in Ids : AppStep("get_followers", <<u>>, get_followers(App, u))

GetAllUsers == AppStep("get_all_users", <<>>, get_all_users(App))

GetUser ==
    \E u \in Ids : AppStep("get_user", <<u>>, get_user(App, u))

\* app.get_user(u).get_full_info() for a user that get_user finds
GetFullInfo ==
    \E u \in Ids :
        LET found == get_user(App, u)
        IN /\ found.ret # None
           /\ AppStep("get_full_info", <<u>>, AppReturns(App, get_full_info(found.ret)))

(* ------------------------ DirectedGraph actions ----------------------- *)
\* vertex payloads are opaque to the graph: None (the default) or any object
Payloads == {None, Profile("a", 1)}

AddVertex ==
    \E v \in Ids, data \in Payloads :
        GraphStep("add_vertex", <<v, data>>, add_vertex(graph, v, data))

AddEdge ==
    \E f, t \in Ids : GraphStep("add_edge", <<f, t>>, add_edge(graph, f, t))

RemoveEdge ==
    \E f, t \in Ids : GraphStep("remove_edge", <<f, t>>, remove_edge(graph, f, t))

ListOutgoing ==
    \E v \in Ids : \E r \in list_outgoing_adjacent_vertices(graph, v) :
        GraphStep("list_outgoing_adjacent_vertices", <<v>>, r)

ListIncoming ==
    \E v \in Ids :
        GraphStep("list_incoming_adjacent_vertices", <<v>>,
                  list_incoming_adjacent_vertices(graph, v))

GetVertexData ==
    \E v \in Ids : GraphStep("get_vertex_data", <<v>>, get_vertex_data(graph, v))

GetAllVertices == GraphStep("get_all_vertices", <<>>, get_all_vertices(graph))

VertexExists ==
    \E v \in Ids : GraphStep("vertex_exists", <<v>>, vertex_exists(graph, v))

Next ==
    \/ AddUser
    \/ FollowUser
    \/ UnfollowUser
    \/ GetFollowing
    \/ GetFollowers
    \/ GetAllUsers
    \/ GetUser
    \/ GetFullInfo
    \/ AddVertex
    \/ AddEdge
    \/ RemoveEdge
    \/ ListOutgoing
    \/ ListIncoming
    \/ GetVertexData
    \/ GetAllVertices
    \/ VertexExists

Spec == Init /\ [][Next]_vars

(* ------------- two runs of the Facade, differing in privacy ------------ *)
\* the same calls are made on two SocialMediaApp objects; the Persons passed
\* to add_user have the same fields in both runs except, possibly, privacy
PairInit ==
    /\ obj = "SocialMediaApp x 2"
    /\ Fresh
    /\ Idle

AppOf(r) == [graph |-> r.graph, users |-> r.users]

PairStep(op, largs, rargs, l, r) ==
    /\ obj = "SocialMediaApp x 2"
    /\ nops < MaxPairOps
    /\ left' = AppOf(l)
    /\ right' = AppOf(r)
    /\ lastBoth' = [op |-> op, left |-> Call(op, largs, l), right |-> Call(op, rargs, r)]
    /\ nops' = nops + 1
    /\ UNCHANGED <<obj, graph, users, last, followed, removed, created, shown, pc,
                 results, threads, mt, writes, clock, hashcall>>

PairAddUser ==
    \E id \in Ids : \E kl, kr \in {1, 2} :
        PairStep("add_user", <<Profile(id, kl)>>, <<Profile(id, kr)>>,
                 add_user(left, Profile(id, kl)), add_user(right, Profile(id, kr)))

PairFollowUser ==
    \E a, b \in Ids :
        PairStep("follow_user", <<a, b>>, <<a, b>>,
                 follow_user(left, a, b), follow_user(right, a, b))

PairUnfollowUser ==
    \E a, b \in Ids :
        PairStep("unfollow_user", <<a, b>>, <<a, b>>,
                 unfollow_user(left, a, b), unfollow_user(right, a, b))

PairGetFollowing ==
    \E u \in Ids : \E l \in get_following(left, u) : \E r \in get_following(right, u) :
        PairStep("get_following", <<u>>, <<u>>, l, r)

PairGetFollowers ==
    \E u \in Ids :
        PairStep("get_followers", <<u>>, <<u>>, get_followers(left, u), get_followers(right, u))

PairGetUser ==
    \E u \in Ids :
        PairStep("get_user", <<u>>, <<u>>, get_user(left, u), get_user(right, u))

PairGetAllUsers ==
    PairStep("get_all_users", <<>>, <<>>, get_all_users(left), get_all_users(right))

PairNext ==
    \/ PairAddUser
    \/ PairFollowUser
    \/ PairUnfollowUser
    \/ PairGetFollowing
    \/ PairGetFollowers
    \/ PairGetUser
    \/ PairGetAllUsers

PairSpec == PairInit /\ [][PairNext]_vars

(* ------------------------------ main() -------------------------------- *)
\* str.isdigit / int over the texts typed at the prompts; "superscript 2"
\* stands for a character isdigit accepts and int rejects with ValueError
IntTable ==
    ("0" :> 0) @@ ("1" :> 1) @@ ("2" :> 2) @@ ("3" :> 3) @@ ("9" :> 9) @@ ("30" :> 30)

isdigit(text) == text \in DOMAIN IntTable \cup {"superscript 2"}

IntRaises(text) == text \notin DOMAIN IntTable

int(text) == IntTable[text]

create_sample_users ==
    << Person("alice123", "Alice Johnson", "Female",
              "Love traveling and photography!", PUBLIC, 28, "New York"),
       Person("bob_dev", "Bob Smith", "Male",
              "Software developer | Coffee enthusiast", PUBLIC, 32, "San Francisco"),
       Person("charlie_art", "Charlie Brown", "Male",
              "Digital artist and designer", PRIVATE, 25, "Los Angeles"),
       Person("diana_fit", "Diana Wilson", "Female",
              "Fitness trainer | Healthy living advocate", PUBLIC, 29, "Miami"),
       Person("eve_music", "Eve Martinez", "Female",
              "Musician and composer | Classical pianist", PRIVATE, 31, "Chicago"),
       Person("frank_chef", "Frank Thompson", "Male",
              "Professional chef | Food blogger", PUBLIC, 35, "Austin"),
       Person("grace_writer", "Grace Lee", "Female",
              "Author and blogger | Love books and tea", PUBLIC, 27, "Seattle") >>

connections ==
    << <<"alice123", "bob_dev">>, <<"alice123", "diana_fit">>,
       <<"alice123", "frank_chef">>, <<"bob_dev", "alice123">>,
       <<"bob_dev", "charlie_art">>, <<"charlie_art", "eve_music">>,
       <<"charlie_art", "grace_writer">>, <<"diana_fit", "alice123">>,
       <<"diana_fit", "frank_chef">>, <<"eve_music", "grace_writer">>,
       <<"frank_chef", "alice123">>, <<"frank_chef", "diana_fit">>,
       <<"frank_chef", "grace_writer">>, <<"grace_writer", "eve_music">>,
       <<"grace_writer", "frank_chef">> >>

\* what the program prints about a user: the printed line names the user it
\* is about (of) and what of that user it shows
Field(person, what) == [what |-> what, of |-> person.user_id]

Entry(kind, of, person) == [what |-> kind, of |-> of, entry |-> person.user_id]

Fields(person, whats) == {Field(person, w) : w \in whats}

Entries(kind, of, persons) ==
    UNION {{Entry(kind, of, persons[i])} \cup Fields(persons[i], {"name", "user_id", "privacy"}) :
              i \in DOMAIN persons}

\* the numbered list display_user_selection_menu prints
Listing(app) ==
    UNION {Fields(u, {"name", "user_id"}) : u \in Range(get_all_users(app).ret)}

\* one pass of the input loop of display_user_selection_menu: the id
\* returned for the text typed, or no return (the prompt is shown again)
Selected(id) == [done |-> TRUE, id |-> id]
AskAgain == [done |-> FALSE, id |-> None]

display_user_selection_menu(app, choice) ==
    LET all == get_all_users(app).ret
    IN IF isdigit(choice)
       THEN IF IntRaises(choice) THEN AskAgain
            ELSE LET index == int(choice) - 1
                 IN IF 0 <= index /\ index < Len(all)
                    THEN Selected(all[index + 1].user_id)
                    ELSE AskAgain
       ELSE IF get_user(app, choice).ret # None
            THEN Selected(choice)
            ELSE AskAgain

\* the outcome of one pass of the menu loop
Shows(app, outcome, out) ==
    [graph |-> app.graph, users |-> app.users, ret |-> outcome, out |-> out]

option1(app) ==
    Shows(app, "listed",
          UNION {Fields(u, {"name", "user_id", "privacy"}) :
                    u \in Range(get_all_users(app).ret)})

option2(app, user_id) ==
    LET user == get_user(app, user_id).ret
    IN IF user = None THEN Shows(app, "not found", Listing(app))
       ELSE IF user.privacy = PUBLIC
       THEN Shows(app, "profile",
                  Listing(app) \cup
                  Fields(user, {"name", "user_id", "privacy", "gender", "age",
                                "location", "biography"}))
       ELSE Shows(app, "private profile",
                  Listing(app) \cup Fields(user, {"name", "user_id", "privacy"}))

option3(app, user_id) ==
    LET user == get_user(app, user_id).ret
    IN IF user = None THEN {Shows(app, "not found", Listing(app))}
       ELSE IF user.privacy = PRIVATE
       THEN {Shows(app, "private following",
                   Listing(app) \cup Fields(user, {"name", "privacy"}))}
       ELSE {Shows(app, "following",
                   Listing(app) \cup Fields(user, {"name"}) \cup
                   Entries("following", user_id, r.ret)) :
                r \in get_following(app, user_id)}

option4(app, user_id) ==
    LET user == get_user(app, user_id).ret
    IN IF user = None THEN Shows(app, "not found", Listing(app))
       ELSE IF user.privacy = PRIVATE
       THEN Shows(app, "private followers",
                  Listing(app) \cup Fields(user, {"name", "privacy"}))
       ELSE Shows(app, "followers",
                  Listing(app) \cup Fields(user, {"name"}) \cup
                  Entries("follower", user_id, get_followers(app, user_id).ret))

option6(app, user_id, name, gender, age_str, location, biography, privacy_choice) ==
    IF get_user(app, user_id).ret # None THEN Shows(app, "id exists", {})
    ELSE IF name = "" THEN Shows(app, "name required", {})
    ELSE IF isdigit(age_str) /\ IntRaises(age_str) THEN Shows(app, "error", {})
    ELSE LET age == IF isdigit(age_str) THEN int(age_str) ELSE None
             privacy == IF privacy_choice = "2" THEN PRIVATE ELSE PUBLIC
             new_user == Person(user_id, name, gender, biography, privacy, age, location)
             added == add_user(app, new_user)
         IN IF added.ret
            THEN Shows(AppOf(added), "added", Fields(new_user, {"name", "user_id"}))
            ELSE Shows(AppOf(added), "failed to add", {})

option7_NoGuard(app, follower_id, followee_id) ==
    LET followed_ == follow_user(app, follower_id, followee_id)
    IN IF followed_.ret
       THEN Shows(AppOf(followed_), "now following", Listing(app))
       ELSE Shows(AppOf(followed_), "unable to follow", Listing(app))

option7(app, follower_id, followee_id) ==
    IF follower_id = followee_id
    THEN Shows(app, "cannot follow themselves", Listing(app))
    ELSE LET followed_ == follow_user(app, follower_id, followee_id)
         IN IF followed_.ret
            THEN Shows(AppOf(followed_), "now following",
                       Listing(app) \cup
                       Fields(get_user(AppOf(followed_), follower_id).ret, {"name"}) \cup
                       Fields(get_user(AppOf(followed_), followee_id).ret, {"name"}))
            ELSE Shows(AppOf(followed_), "unable to follow", Listing(app))

option8_IndexAllUsers(app, follower_id, choice_num) ==
    LET all == get_all_users(app).ret
        followee_id == all[int(choice_num)].user_id
        unfollowed == unfollow_user(app, follower_id, followee_id)
    IN IF int(choice_num) > Len(all) THEN {}
       ELSE {IF unfollowed.ret
             THEN Shows(AppOf(unfollowed), <<"unfollowed", followee_id>>, Listing(app))
             ELSE Shows(AppOf(unfollowed), <<"unable to unfollow", followee_id>>, Listing(app))}

\* choice_num is the text typed at "Enter number ... to unfollow" that the
\* inner loop accepts
option8(app, follower_id, choice_num) ==
    {IF r.ret = <<>>
     THEN Shows(app, <<"not following anyone">>, Listing(app))
     ELSE LET following == r.ret
              printed == Listing(app) \cup
                         Fields(get_user(app, follower_id).ret, {"name"}) \cup
                         UNION {{Entry("following", follower_id, following[i])} \cup
                                Fields(following[i], {"name", "user_id"}) :
                                   i \in DOMAIN following}
              followee_id == following[int(choice_num)].user_id
              unfollowed == unfollow_user(app, follower_id, followee_id)
          IN IF unfollowed.ret
             THEN Shows(AppOf(unfollowed), <<"unfollowed", followee_id>>, printed)
             ELSE Shows(AppOf(unfollowed), <<"unable to unfollow", followee_id>>, printed) :
        r \in {f \in get_following(app, follower_id) :
                  f.ret = <<>> \/ (/\ isdigit(choice_num)
                                   /\ ~IntRaises(choice_num)
                                   /\ 0 <= int(choice_num) - 1
                                   /\ int(choice_num) - 1 < Len(f.ret))}}

\* the texts typed at the prompts
TypedSelections == {"0", "2", "3", "charlie_art", "zed", ""}
TypedNumbers == {"1", "2", "3"}
TypedUserIds == {"zed", "2", "", "bob_dev"}
TypedNames == {"", "Zed Young"}
TypedAges == {"", "30", "superscript 2"}
TypedPrivacy == {"1", "2"}

\* main() has constructed the app and is about to add the first sample user
MainInit ==
    /\ obj = "main"
    /\ graph = NewGraph
    /\ users = EmptyDict
    /\ last = NoCall
    /\ followed = {}
    /\ removed = {}
    /\ created = <<>>
    /\ nops = 0
    /\ left = NewApp
    /\ right = NewApp
    /\ lastBoth = [op |-> "init", left |-> NoCall, right |-> NoCall]
    /\ shown = {}
    /\ pc = [at |-> "sample_users", i |-> 1]
    /\ Idle

After(seq, then) ==
    IF pc.i = Len(seq) THEN [at |-> then, i |-> 1] ELSE [pc EXCEPT !.i = @ + 1]

\* one pass of `for user in sample_users: app.add_user(user)`
AddSampleUser ==
    /\ obj = "main"
    /\ pc.at = "sample_users"
    /\ LET user == create_sample_users[pc.i]
           r == add_user(App, user)
       IN /\ graph' = r.graph
          /\ users' = r.users
          /\ last' = Call("add_user", <<user.user_id>>, r)
    /\ pc' = After(create_sample_users, "connections")
    /\ UNCHANGED <<obj, followed, removed, created, nops, left, right, lastBoth, shown,
                 results, threads, mt, writes, clock, hashcall>>

\* one pass of `for follower, followee in connections: app.follow_user(...)`
setup_connections ==
    /\ obj = "main"
    /\ pc.at = "connections"
    /\ LET follower == connections[pc.i][1]
           followee == connections[pc.i][2]
           r == follow_user(App, follower, followee)
       IN /\ graph' = r.graph
          /\ users' = r.users
          /\ last' = Call("follow_user", <<follower, followee>>, r)
    /\ pc' = After(connections, "menu")
    /\ UNCHANGED <<obj, followed, removed, created, nops, left, right, lastBoth, shown,
                 results, threads, mt, writes, clock, hashcall>>

\* one pass of the `while True` loop of main: the choice typed, the further
\* texts typed, and what the handler did and printed
MenuStep(choice, typed, r) ==
    /\ obj = "main"
    /\ pc.at = "menu"
    /\ nops < MaxChoices
    /\ graph' = r.graph
    /\ users' = r.users
    /\ last' = [op |-> choice, args |-> typed, ret |-> r.ret, exc |-> "none"]
    /\ shown' = r.out
    /\ pc' = [pc EXCEPT !.at = IF choice = "5" THEN "exited" ELSE "menu"]
    /\ nops' = nops + 1
    /\ UNCHANGED <<obj, followed, removed, created, left, right, lastBoth,
                 results, threads, mt, writes, clock, hashcall>>

Choice1 == MenuStep("1", <<>>, option1(App))

Choice2 ==
    \E t \in TypedSelections :
        LET sel == display_user_selection_menu(App, t)
        IN sel.done /\ MenuStep("2", <<t>>, option2(App, sel.id))

Choice3 ==
    \E t \in TypedSelections :
        LET sel == display_user_selection_menu(App, t)
        IN sel.done /\ \E r \in option3(App, sel.id) : MenuStep("3", <<t>>, r)

Choice4 ==
    \E t \in TypedSelections :
        LET sel == display_user_selection_menu(App, t)
        IN sel.done /\ MenuStep("4", <<t>>, option4(App, sel.id))

Choice5 == MenuStep("5", <<>>, Shows(App, "goodbye", {}))

Choice6 ==
    \E user_id \in TypedUserIds, name \in TypedNames, age_str \in TypedAges,
       privacy_choice \in TypedPrivacy :
        MenuStep("6", <<user_id, name, age_str, privacy_choice>>,
                 option6(App, user_id, name, "", age_str, "Ipoh", "", privacy_choice))

Choice7 ==
    \E t1, t2 \in TypedSelections :
        LET follower == display_user_selection_menu(App, t1)
            followee == display_user_selection_menu(App, t2)
        IN /\ follower.done
           /\ followee.done
           /\ MenuStep("7", <<t1, t2>>, option7(App, follower.id, followee.id))

Choice8 ==
    \E t \in TypedSelections, n \in TypedNumbers :
        LET follower == display_user_selection_menu(App, t)
        IN /\ follower.done
           /\ \E r \in option8(App, follower.id, n) : MenuStep("8", <<t, n>>, r)

ChoiceInvalid == MenuStep("x", <<>>, Shows(App, "invalid choice", {}))

MainNext ==
    \/ AddSampleUser
    \/ setup_connections
    \/ Choice1
    \/ Choice2
    \/ Choice3
    \/ Choice4
    \/ Choice5
    \/ Choice6
    \/ Choice7
    \/ Choice8
    \/ ChoiceInvalid

MainSpec == MainInit /\ [][MainNext]_vars

(* ------------------------ Q3.py multithreaded_run --------------------- *)
NumThreads == 3

\* a Python list object, as opposed to None
List(elements) == [list |-> elements]

\* generate_random_numbers returns a list of numbers in 0..9999 drawn at
\* random; two short lists stand for the lists it can return
generate_random_numbers == {List(<<0>>), List(<<9999>>)}

\* the state of the Q2 objects, which multithreaded_run never touches
Q2State ==
    <<graph, users, last, followed, removed, created, nops, left, right, lastBoth, shown, pc>>

\* results = [None] * 3, threads = [], start_time read, about to enter the loop
ThreadInit ==
    /\ obj = "multithreaded_run"
    /\ Fresh
    /\ results = [k \in 0 .. NumThreads - 1 |-> None]
    /\ threads = <<>>
    /\ mt = [at |-> "for", i |-> <<>>, joined |-> 0, start_time |-> 0, elapsed |-> <<>>]
    /\ writes = {}
    /\ clock = 0
    /\ hashcall = NoCall

Tick == clock' = clock + 1

\* one pass of `for i in range(3)`: define task with idx bound to the
\* current i, create the thread, append it and start it
StartThread ==
    /\ obj = "multithreaded_run"
    /\ mt.at = "for"
    /\ Len(threads) < NumThreads
    /\ LET i == Len(threads)
       IN /\ mt' = [mt EXCEPT !.i = <<i>>]
          /\ threads' = Append(threads, [idx |-> i, at |-> "started", numbers |-> None])
    /\ Tick
    /\ UNCHANGED <<obj, Q2State, results, writes, hashcall>>

\* range(3) is exhausted: main goes on to the join loop; i keeps its last value
EndFor ==
    /\ obj = "multithreaded_run"
    /\ mt.at = "for"
    /\ Len(threads) = NumThreads
    /\ mt' = [mt EXCEPT !.at = "join"]
    /\ Tick
    /\ UNCHANGED <<obj, Q2State, results, threads, writes, hashcall>>

\* thread t evaluates generate_random_numbers()
TaskGenerate(t) ==
    /\ obj = "multithreaded_run"
    /\ threads[t].at = "started"
    /\ \E numbers \in generate_random_numbers :
          threads' = [threads EXCEPT ![t].at = "generated", ![t].numbers = numbers]
    /\ Tick
    /\ UNCHANGED <<obj, Q2State, results, mt, writes, hashcall>>

task_idx_LoopVariable(t) == mt.i[1]

\* the slot task writes: idx, the default argument bound when task was defined
task_idx(t) == threads[t].idx

\* thread t stores the list: results[idx] = ..., and terminates
TaskStore(t) ==
    /\ obj = "multithreaded_run"
    /\ threads[t].at = "generated"
    /\ results' = [results EXCEPT ![task_idx(t)] = threads[t].numbers]
    /\ threads' = [threads EXCEPT ![t].at = "terminated"]
    /\ writes' = writes \cup {[worker |-> t - 1, slot |-> task_idx(t)]}
    /\ Tick
    /\ UNCHANGED <<obj, Q2State, mt, hashcall>>

\* one pass of `for t in threads: t.join()`: returns once that thread has terminated
Join ==
    /\ obj = "multithreaded_run"
    /\ mt.at = "join"
    /\ mt.joined < Len(threads)
    /\ threads[mt.joined + 1].at = "terminated"
    /\ mt' = [mt EXCEPT !.joined = @ + 1]
    /\ Tick
    /\ UNCHANGED <<obj, Q2State, results, threads, writes, hashcall>>

\* end_time = time.time_ns(); return end_time - start_time
EndTime ==
    /\ obj = "multithreaded_run"
    /\ mt.at = "join"
    /\ mt.joined = Len(threads)
    /\ mt' = [mt EXCEPT !.at = "returned", !.elapsed = <<clock - mt.start_time>>]
    /\ Tick
    /\ UNCHANGED <<obj, Q2State, results, threads, writes, hashcall>>

ThreadNext ==
    \/ StartThread
    \/ EndFor
    \/ \E t \in DOMAIN threads : TaskGenerate(t)
    \/ \E t \in DOMAIN threads : TaskStore(t)
    \/ Join
    \/ EndTime

ThreadSpec == ThreadInit /\ [][ThreadNext]_vars

(* ------------------------------ Q1 hashing ---------------------------- *)
\* a str is modelled as the sequence of its characters
DigitValue ==
    ("0" :> 0) @@ ("1" :> 1) @@ ("2" :> 2) @@ ("3" :> 3) @@ ("4" :> 4) @@
    ("5" :> 5) @@ ("6" :> 6) @@ ("7" :> 7) @@ ("8" :> 8) @@ ("9" :> 9)

\* str.isdigit is True for the decimal digits and also for characters such
\* as superscript two, which int() rejects with ValueError
DigitLike == DOMAIN DigitValue \cup {"superscript 2"}

str_isdigit(text) == Len(text) > 0 /\ \A i \in DOMAIN text : text[i] \in DigitLike

HashReturns(value) == [ret |-> value, exc |-> "none"]

HashRaises(exception) == [ret |-> None, exc |-> exception]

\* int(ic_number[i:i + 3]) for a slice of three characters
int3(text) ==
    IF \E i \in DOMAIN text : text[i] \notin DOMAIN DigitValue
    THEN HashRaises("ValueError")
    ELSE HashReturns(100 * DigitValue[text[1]] + 10 * DigitValue[text[2]] + DigitValue[text[3]])

\* Python's %: the result takes the sign of the divisor
PyMod(a, n) == IF n > 0 THEN a % n ELSE 0 - ((0 - a) % (0 - n))

Slices(ic_number) == [k \in 1 .. 4 |-> SubSeq(ic_number, 3 * k - 2, 3 * k)]

folding_hash_NoModulo(ic_number, table_size) ==
    IF Len(ic_number) # 12 \/ ~str_isdigit(ic_number)
    THEN HashRaises("ValueError")
    ELSE LET parts == [k \in 1 .. 4 |-> int3(Slices(ic_number)[k])]
         IN IF \E k \in 1 .. 4 : parts[k].exc # "none"
            THEN HashRaises("ValueError")
            ELSE HashReturns(parts[1].ret + parts[2].ret + parts[3].ret + parts[4].ret)

folding_hash(ic_number, table_size) ==
    IF Len(ic_number) # 12 \/ ~str_isdigit(ic_number)
    THEN HashRaises("ValueError")
    ELSE LET parts == [k \in 1 .. 4 |-> int3(Slices(ic_number)[k])]
         IN IF \E k \in 1 .. 4 : parts[k].exc # "none"
            THEN HashRaises("ValueError")
            ELSE IF table_size = 0
            THEN HashRaises("ZeroDivisionError")
            ELSE HashReturns(PyMod(parts[1].ret + parts[2].ret + parts[3].ret + parts[4].ret,
                                   table_size))

\* the `for ic in ic_list` loop: the table and the collision count it has
\* built when it ends or when an exception leaves it
RECURSIVE InsertLoop(_, _, _, _)
InsertLoop(ic_list, table_size, table, collisions) ==
    IF ic_list = <<>>
    THEN [table |-> table, collisions |-> collisions, exc |-> "none"]
    ELSE LET ic == Head(ic_list)
             hashed == folding_hash(ic, table_size)
             idx == hashed.ret
             buckets == Cardinality(DOMAIN table)
             at == IF idx < 0 THEN idx + buckets ELSE idx
         IN IF hashed.exc # "none"
            THEN [table |-> table, collisions |-> collisions, exc |-> hashed.exc]
            ELSE IF at \notin DOMAIN table
            THEN [table |-> table, collisions |-> collisions, exc |-> "IndexError"]
            ELSE InsertLoop(Tail(ic_list), table_size,
                            [table EXCEPT ![at] = Append(@, ic)],
                            IF table[at] # <<>> THEN collisions + 1 ELSE collisions)

\* the outcome carries the local table as it is when the function ends;
\* rate, a quotient, is kept as numerator and denominator
insert_to_hash_table(ic_list, table_size) ==
    LET loop == InsertLoop(ic_list, table_size, [k \in 0 .. table_size - 1 |-> <<>>], 0)
    IN IF loop.exc # "none"
       THEN [ret |-> None, exc |-> loop.exc, table |-> loop.table]
       ELSE IF Len(ic_list) = 0
       THEN [ret |-> None, exc |-> "ZeroDivisionError", table |-> loop.table]
       ELSE [ret |-> [table |-> loop.table, collisions |-> loop.collisions,
                      rate |-> <<loop.collisions, Len(ic_list)>>],
             exc |-> "none", table |-> loop.table]

\* the inputs: well-formed IC numbers, and texts that are not 12 decimal digits
ICs ==
    { <<"0", "0", "0", "0", "0", "0", "0", "0", "0", "0", "0", "0">>,
      <<"0", "0", "7", "0", "0", "0", "0", "0", "0", "0", "0", "0">>,
      <<"9", "0", "0", "1", "0", "1", "1", "4", "5", "6", "7", "8">>,
      <<"9", "9", "9", "9", "9", "9", "9", "9", "9", "9", "9", "9">>,
      <<"9", "0", "0", "1", "0", "1", "1", "4", "5", "6", "7">>,
      <<"9", "0", "0", "1", "0", "1", "1", "4", "5", "6", "7", "8", "9">>,
      <<"9", "0", "0", "1", "0", "1", "-", "1", "4", "5", "6", "7">>,
      <<"9", "0", "0", "1", "0", "1", "1", "4", "5", "6", "7", "superscript 2">>,
      <<>> }

TableSizes == {-2, 0, 1, 7}

ICLists == UNION {[1 .. n -> ICs] : n \in 0 .. MaxICs}

\* a caller holds a list of IC texts and a table size
HashInit ==
    /\ obj = "Q1"
    /\ Fresh
    /\ results = <<>>
    /\ threads = <<>>
    /\ mt = [at |-> "none"]
    /\ writes = {}
    /\ clock = 0
    /\ \E ic_list \in ICLists, table_size \in TableSizes :
          hashcall = [op |-> "input", args |-> <<ic_list, table_size>>,
                      ret |-> None, exc |-> "none", table |-> <<>>]

HashStep(op, args, r) ==
    /\ obj = "Q1"
    /\ hashcall.op = "input"
    /\ hashcall' = [op |-> op, args |-> args, ret |-> r.ret, exc |-> r.exc, table |-> r.table]
    /\ UNCHANGED <<obj, Q2State, results, threads, mt, writes, clock>>

FoldingHash ==
    \E i \in DOMAIN hashcall.args[1] :
        LET ic_number == hashcall.args[1][i]
            table_size == hashcall.args[2]
            r == folding_hash(ic_number, table_size)
        IN HashStep("folding_hash", <<ic_number, table_size>>,
                    [ret |-> r.ret, exc |-> r.exc, table |-> <<>>])

InsertToHashTable ==
    HashStep("insert_to_hash_table", hashcall.args,
             insert_to_hash_table(hashcall.args[1], hashcall.args[2]))

HashNext ==
    \/ FoldingHash
    \/ InsertToHashTable

HashSpec == HashInit /\ [][HashNext]_vars

(* ------------------------- derived state ------------------------------ *)
Keys(d) == Range(d.keys)

\* the stored edge relation: the pairs (f, t) with t in f's adjacency set
Edges(g) ==
    UNION {{<<f, t>> : t \in g._adjacency_list.vals[f]} : f \in Keys(g._adjacency_list)}

WithEdge(g, f, t) ==
    [g EXCEPT !._adjacency_list.vals[f] = @ \cup {t}]

WithoutEdge(g, f, t) ==
    [g EXCEPT !._adjacency_list.vals[f] = @ \ {t}]

(* =========================== properties =============================== *)
IsCall(l, ops) == l.op \in ops

(* C1: add_edge(from, to) returns True only if both ids are vertices and   *)
(* (from, to) is not yet an edge, and then the edge is inserted; in every  *)
(* other case it returns False and the vertex map and every adjacency set  *)
(* are exactly as before the call.                                         *)
C1_AddEdgeStep ==
    IsCall(last', {"add_edge"}) =>
        LET f == last'.args[1]
            t == last'.args[2]
            ok == /\ Has(graph._vertices, f)
                  /\ Has(graph._vertices, t)
                  /\ <<f, t>> \notin Edges(graph)
        IN /\ last'.exc = "none"
           /\ last'.ret = ok
           /\ graph' = IF ok THEN WithEdge(graph, f, t) ELSE graph

C1_AddEdgeContract == [][C1_AddEdgeStep]_vars

C1_Witness ==
    /\ IsCall(last, {"add_edge"})
    /\ Succeeded(last)
    /\ <<last.args[1], last.args[2]>> \in Edges(graph)
    /\ Cardinality(Edges(graph)) >= 2

(* C2: remove_edge(from, to) / unfollow_user(from, to) returns True iff    *)
(* the edge (from, to) existed before the call, and then it is removed;    *)
(* otherwise it returns False and vertices, adjacency and users are        *)
(* unchanged.                                                              *)
C2_RemoveEdgeStep ==
    IsCall(last', {"remove_edge", "unfollow_user"}) =>
        LET f == last'.args[1]
            t == last'.args[2]
            existed == <<f, t>> \in Edges(graph)
        IN /\ last'.exc = "none"
           /\ last'.ret = existed
           /\ graph' = IF existed THEN WithoutEdge(graph, f, t) ELSE graph
           /\ existed => <<f, t>> \notin Edges(graph')
           /\ users' = users

C2_RemoveEdgeContract == [][C2_RemoveEdgeStep]_vars

C2_Witness ==
    /\ IsCall(last, {"unfollow_user"})
    /\ Succeeded(last)
    /\ <<last.args[1], last.args[2]>> \notin Edges(graph)
    /\ Edges(graph) # {}

(* C3: the first add_vertex / add_user for an id returns True and records  *)
(* the payload with an empty adjacency set; any later call with the same   *)
(* id, whatever the payload, returns False and leaves the stored payload,  *)
(* the stored Person and the id's adjacency set unchanged.  An id has had  *)
(* a first call exactly when it is recorded, since no step removes a       *)
(* recorded id or changes what is stored for it.                           *)
C3_AddStep ==
    /\ \A id \in Keys(graph._vertices) :
          /\ Has(graph'._vertices, id)
          /\ graph'._vertices.vals[id] = graph._vertices.vals[id]
    /\ \A id \in Keys(users) :
          /\ Has(users', id)
          /\ users'.vals[id] = users.vals[id]
    /\ IsCall(last', {"add_vertex", "add_user"}) =>
          LET isUser == last'.op = "add_user"
              id == IF isUser THEN last'.args[1].user_id ELSE last'.args[1]
              data == IF isUser THEN last'.args[1] ELSE last'.args[2]
              first == ~Has(graph._vertices, id) /\ (isUser => ~Has(users, id))
          IN /\ last'.exc = "none"
             /\ last'.ret = first
             /\ IF first
                THEN /\ DictGet(graph'._vertices, id) = data
                     /\ DictGet(graph'._adjacency_list, id) = {}
                     /\ isUser => DictGet(users', id) = data
                ELSE /\ graph' = graph
                     /\ users' = users

C3_AddIdempotent == [][C3_AddStep]_vars

C3_Witness ==
    /\ IsCall(last, {"add_user"})
    /\ last.exc = "none"
    /\ last.ret = FALSE
    /\ DictGet(users, last.args[1].user_id) # last.args[1]
    /\ DictGet(graph._adjacency_list, last.args[1].user_id) # {}

(* ids of the Persons in a returned list *)
UserIds(persons) == {persons[i].user_id : i \in DOMAIN persons}

Count(persons, id) == Cardinality({i \in DOMAIN persons : persons[i].user_id = id})

(* C4: right after follow_user(a, b) returned True, b is in                *)
(* list_outgoing_adjacent_vertices(a) and a is in                          *)
(* list_incoming_adjacent_vertices(b); right after unfollow_user(a, b),    *)
(* b is not in the outgoing list of a and a is not in the incoming list    *)
(* of b.                                                                   *)
C4_FollowVisible ==
    LET a == last.args[1]
        b == last.args[2]
        incoming == list_incoming_adjacent_vertices(graph, b)
    IN /\ (IsCall(last, {"follow_user"}) /\ Succeeded(last)) =>
             /\ \A r \in list_outgoing_adjacent_vertices(graph, a) :
                   r.exc = "none" /\ b \in Range(r.ret)
             /\ incoming.exc = "none" /\ a \in Range(incoming.ret)
       /\ IsCall(last, {"unfollow_user"}) =>
             /\ \A r \in list_outgoing_adjacent_vertices(graph, a) :
                   r.exc = "none" /\ b \notin Range(r.ret)
             /\ incoming.exc = "none" /\ a \notin Range(incoming.ret)

C4_Witness ==
    /\ IsCall(last, {"follow_user"})
    /\ Succeeded(last)
    /\ last.args[1] # last.args[2]
    /\ <<last.args[2], last.args[1]>> \in Edges(graph)

(* C5: after any sequence of SocialMediaApp operations the key set of      *)
(* users equals the vertex set of the graph, and the graph payload of      *)
(* each id is the Person stored in users.                                  *)
C5_UsersMirrorVertices ==
    obj = "SocialMediaApp" =>
        /\ Keys(users) = Keys(graph._vertices)
        /\ \A id \in Keys(users) : DictGet(graph._vertices, id) = users.vals[id]

C5_Witness ==
    /\ obj = "SocialMediaApp"
    /\ IsCall(last, {"add_user"})
    /\ Succeeded(last)
    /\ Cardinality(Keys(users)) >= 2
    /\ Edges(graph) # {}

(* C6: in every reachable state the key set of _adjacency_list is exactly  *)
(* the key set of _vertices: every vertex, even an isolated one, has an    *)
(* adjacency entry and no non-vertex has one.                              *)
C6_AdjacencyDomain == Keys(graph._adjacency_list) = Keys(graph._vertices)

C6_Witness ==
    /\ obj = "DirectedGraph"
    /\ \E v \in Keys(graph._vertices) :
          Has(graph._adjacency_list, v) /\ graph._adjacency_list.vals[v] = {}
    /\ \E v \in Keys(graph._vertices) :
          Has(graph._adjacency_list, v) /\ graph._adjacency_list.vals[v] # {}

(* C7: in every reachable state both the source and the target of every    *)
(* stored edge are keys of the vertex map.                                 *)
C7_EdgesReferenceVertices ==
    \A e \in Edges(graph) : Has(graph._vertices, e[1]) /\ Has(graph._vertices, e[2])

C7_Witness ==
    /\ obj = "DirectedGraph"
    /\ IsCall(last, {"add_edge"})
    /\ Has(graph._vertices, last.args[1])
    /\ ~Has(graph._vertices, last.args[2])
    /\ Edges(graph) # {}

(* C8: for every added user u, get_following(u) is exactly the set of v    *)
(* whose follow_user(u, v) succeeded and was not undone by a successful    *)
(* unfollow_user(u, v) since, and get_followers(u) is exactly the set of   *)
(* w with such a follow_user(w, u).                                        *)
C8_FollowingMatchesHistory ==
    obj = "SocialMediaApp" =>
        \A u \in Keys(users) :
            /\ \A r \in get_following(App, u) :
                  /\ r.exc = "none"
                  /\ UserIds(r.ret) = {v \in Ids : <<u, v>> \in followed}
            /\ get_followers(App, u).exc = "none"
            /\ UserIds(get_followers(App, u).ret) = {w \in Ids : <<w, u>> \in followed}

\* the scenario: users a, b, c; follow(a, b); follow(a, c)
C8_Witness ==
    /\ Keys(users) = {"a", "b", "c"}
    /\ followed = {<<"a", "b">>, <<"a", "c">>}
    /\ \A r \in get_following(App, "a") : UserIds(r.ret) = {"b", "c"}
    /\ get_followers(App, "a").ret = <<>>
    /\ UserIds(get_followers(App, "b").ret) = {"a"}

(* C9: a successful follow_user(a, b) / add_edge(a, b) adds the ordered    *)
(* pair (a, b) and changes no other ordered pair: for a # b the pair       *)
(* (b, a) exists afterwards exactly if it existed before.                  *)
C9_FollowStep ==
    (IsCall(last', {"follow_user", "add_edge"}) /\ Succeeded(last')) =>
        LET a == last'.args[1]
            b == last'.args[2]
        IN /\ <<a, b>> \in Edges(graph')
           /\ \A p \in (Ids \X Ids) \ {<<a, b>>} :
                 p \in Edges(graph') <=> p \in Edges(graph)
           /\ Edges(graph') \subseteq Ids \X Ids

C9_NotSymmetric == [][C9_FollowStep]_vars

C9_Witness ==
    /\ IsCall(last, {"follow_user"})
    /\ Succeeded(last)
    /\ last.args[1] # last.args[2]
    /\ <<last.args[1], last.args[2]>> \in Edges(graph)
    /\ <<last.args[2], last.args[1]>> \notin Edges(graph)

(* C10: follow_user(a, b) called twice in a row returns True then False;   *)
(* the second call changes nothing, and afterwards get_followers(b) and    *)
(* get_following(a) hold each id at most once, with exactly one entry a    *)
(* in get_followers(b).                                                    *)
C10_SecondFollowStep ==
    (/\ IsCall(last, {"follow_user"})
     /\ Succeeded(last)
     /\ IsCall(last', {"follow_user"})
     /\ last'.args = last.args) =>
        LET a == last.args[1]
            b == last.args[2]
            after == [graph |-> graph', users |-> users']
            followers == get_followers(after, b)
        IN /\ last'.exc = "none"
           /\ last'.ret = FALSE
           /\ graph' = graph
           /\ users' = users
           /\ followers.exc = "none"
           /\ Count(followers.ret, a) = 1
           /\ \A id \in Ids : Count(followers.ret, id) <= 1
           /\ \A r \in get_following(after, a) :
                 /\ r.exc = "none"
                 /\ Count(r.ret, b) = 1
                 /\ \A id \in Ids : Count(r.ret, id) <= 1

C10_FollowTwice == [][C10_SecondFollowStep]_vars

\* four calls: the two add_user, follow_user(a, b), then follow_user(a, b) again
C10_Witness ==
    /\ IsCall(last, {"follow_user"})
    /\ last.exc = "none"
    /\ last.ret = FALSE
    /\ nops = 4
    /\ last.args[1] # last.args[2]
    /\ Keys(users) = {last.args[1], last.args[2]}
    /\ Edges(graph) = {<<last.args[1], last.args[2]>>}

(* C11: for an existing user / vertex a with no self-edge,                 *)
(* follow_user(a, a) and add_edge(a, a) return True, and afterwards a is   *)
(* in both get_following(a) and get_followers(a).                          *)
C11_SelfFollowStep ==
    (/\ IsCall(last', {"follow_user", "add_edge"})
     /\ last'.args[1] = last'.args[2]
     /\ Has(graph._vertices, last'.args[1])
     /\ last'.op = "follow_user" => Has(users, last'.args[1])
     /\ <<last'.args[1], last'.args[1]>> \notin Edges(graph)) =>
        LET a == last'.args[1]
            after == [graph |-> graph', users |-> users']
        IN /\ Succeeded(last')
           /\ \A r \in list_outgoing_adjacent_vertices(graph', a) :
                 r.exc = "none" /\ a \in Range(r.ret)
           /\ a \in Range(list_incoming_adjacent_vertices(graph', a).ret)
           /\ last'.op = "follow_user" =>
                 /\ \A r \in get_following(after, a) :
                       r.exc = "none" /\ a \in UserIds(r.ret)
                 /\ a \in UserIds(get_followers(after, a).ret)

C11_SelfFollowSucceeds == [][C11_SelfFollowStep]_vars

C11_Witness ==
    /\ IsCall(last, {"follow_user"})
    /\ Succeeded(last)
    /\ last.args[1] = last.args[2]
    /\ last.args[1] \in UserIds(get_followers(App, last.args[1]).ret)

(* C12: in every reachable state the four list queries called with an id   *)
(* that is not a vertex / user return the empty sequence without raising,  *)
(* and get_vertex_data / get_user return None.                             *)
C12_UnknownIdLookups ==
    /\ \A id \in Ids \ Keys(graph._vertices) :
          /\ list_outgoing_adjacent_vertices(graph, id) = {Returns(graph, <<>>)}
          /\ list_incoming_adjacent_vertices(graph, id) = Returns(graph, <<>>)
          /\ get_vertex_data(graph, id) = Returns(graph, None)
    /\ obj = "SocialMediaApp" =>
          \A id \in Ids \ Keys(users) :
              /\ get_following(App, id) = {AppReturns(App, <<>>)}
              /\ get_followers(App, id) = AppReturns(App, <<>>)
              /\ get_user(App, id) = AppReturns(App, None)
    /\ (/\ IsCall(last, {"list_outgoing_adjacent_vertices",
                         "list_incoming_adjacent_vertices",
                         "get_following", "get_followers"})
        /\ ~Has(graph._vertices, last.args[1])) =>
          last.exc = "none" /\ last.ret = <<>>
    /\ (/\ IsCall(last, {"get_vertex_data", "get_user"})
        /\ ~Has(graph._vertices, last.args[1])) =>
          last.exc = "none" /\ last.ret = None

C12_Witness ==
    /\ IsCall(last, {"get_followers"})
    /\ ~Has(users, last.args[1])
    /\ last.ret = <<>>
    /\ \E e \in Edges(graph) : e[1] # e[2]

(* C13: no Graph or Facade call ends in an error, whatever ids it is       *)
(* given: a mutating call ends by returning a boolean, a list lookup by    *)
(* returning a sequence, get_vertex_data / get_user by returning the       *)
(* stored object or None.                                                  *)
Mutators ==
    {"add_vertex", "add_edge", "remove_edge", "add_user", "follow_user", "unfollow_user"}

ListLookups ==
    {"list_outgoing_adjacent_vertices", "list_incoming_adjacent_vertices",
     "get_all_vertices", "get_following", "get_followers", "get_all_users"}

C13_NoErrorOutcome ==
    /\ last.exc = "none"
    /\ IsCall(last, Mutators \cup {"vertex_exists"}) => last.ret \in BOOLEAN
    /\ IsCall(last, ListLookups) => DOMAIN last.ret = 1..Len(last.ret)
    /\ IsCall(last, {"get_vertex_data"}) =>
          last.ret = DictGet(graph._vertices, last.args[1])
    /\ IsCall(last, {"get_user"}) => last.ret = DictGet(users, last.args[1])

C13_Witness ==
    /\ IsCall(last, {"remove_edge"})
    /\ last.exc = "none"
    /\ last.ret = FALSE
    /\ Has(graph._vertices, last.args[1])
    /\ Has(graph._vertices, last.args[2])
    /\ Edges(graph) # {}

(* C14: the set of vertex ids and the set of user ids only grow; an edge   *)
(* that was removed can be added again: add_edge(a, b) / follow_user(a, b) *)
(* on a removed, currently absent edge returns True and restores it.       *)
C14_LifecycleStep ==
    /\ Keys(graph._vertices) \subseteq Keys(graph'._vertices)
    /\ Keys(users) \subseteq Keys(users')
    /\ (/\ IsCall(last', {"add_edge", "follow_user"})
        /\ <<last'.args[1], last'.args[2]>> \in removed
        /\ <<last'.args[1], last'.args[2]>> \notin Edges(graph)) =>
          /\ Succeeded(last')
          /\ <<last'.args[1], last'.args[2]>> \in Edges(graph')

C14_AddOnlyVertices == [][C14_LifecycleStep]_vars

C14_Witness ==
    /\ IsCall(last, {"add_edge"})
    /\ Succeeded(last)
    /\ <<last.args[1], last.args[2]>> \in removed
    /\ <<last.args[1], last.args[2]>> \in Edges(graph)

(* C15: in every reachable state and for all vertices a, b: a is in        *)
(* list_incoming_adjacent_vertices(b) iff b is in                          *)
(* list_outgoing_adjacent_vertices(a); the incoming list is the reverse of *)
(* the stored edge relation and lists each source once.                    *)
C15_IncomingIsReverse ==
    \A b \in Keys(graph._vertices) :
        LET incoming == list_incoming_adjacent_vertices(graph, b)
        IN /\ incoming.exc = "none"
           /\ Range(incoming.ret) = {a \in Keys(graph._vertices) : <<a, b>> \in Edges(graph)}
           /\ \A i, j \in DOMAIN incoming.ret :
                 i # j => incoming.ret[i] # incoming.ret[j]
           /\ \A a \in Keys(graph._vertices) :
                 \A r \in list_outgoing_adjacent_vertices(graph, a) :
                     /\ r.exc = "none"
                     /\ a \in Range(incoming.ret) <=> b \in Range(r.ret)

C15_Witness ==
    /\ obj = "DirectedGraph"
    /\ \E b \in Keys(graph._vertices) :
          /\ <<b, b>> \in Edges(graph)
          /\ Len(list_incoming_adjacent_vertices(graph, b).ret) >= 2

(* C17: for a Person added with add_user, get_user(id).get_full_info()     *)
(* reproduces every field passed at creation, with privacy as its          *)
(* lowercase tag, whatever the visibility and whatever calls came later.   *)
FullInfoFields ==
    {"user_id", "name", "gender", "biography", "privacy", "age", "location"}

Reproduces(info, person) ==
    /\ DOMAIN info = FullInfoFields
    /\ \A f \in FullInfoFields \ {"privacy"} : info[f] = person[f]
    /\ info.privacy = (IF person.privacy = PRIVATE THEN "private" ELSE "public")

C17_FullInfoRoundTrip ==
    /\ \A id \in DOMAIN created :
          LET found == get_user(App, id)
          IN /\ found.exc = "none"
             /\ found.ret # None
             /\ Reproduces(get_full_info(found.ret), created[id])
    /\ IsCall(last, {"get_full_info"}) =>
          /\ last.args[1] \in DOMAIN created
          /\ Reproduces(last.ret, created[last.args[1]])

C17_Witness ==
    /\ IsCall(last, {"get_full_info"})
    /\ last.ret.privacy = "private"
    /\ last.ret.biography # ""
    /\ Edges(graph) # {}

(* C19: the Profile lookup in get_following / get_followers drops nothing: *)
(* in every state reachable through the Facade the returned list has one   *)
(* entry per neighbour id, and the entry is the Person with that user_id.  *)
SameIds(persons, ids) ==
    /\ Len(persons) = Len(ids)
    /\ \A i \in DOMAIN ids : persons[i] = users.vals[ids[i]] /\ persons[i].user_id = ids[i]

C19_LookupDropsNothing ==
    obj = "SocialMediaApp" =>
        \A u \in Ids :
            /\ \A r \in list_outgoing_adjacent_vertices(graph, u) :
                  /\ r.exc = "none"
                  /\ SameIds(Resolve(App, r.ret), r.ret)
                  /\ AppReturns(App, Resolve(App, r.ret)) \in get_following(App, u)
            /\ \A r \in get_following(App, u) :
                  \E l \in list_outgoing_adjacent_vertices(graph, u) : SameIds(r.ret, l.ret)
            /\ SameIds(get_followers(App, u).ret,
                       list_incoming_adjacent_vertices(graph, u).ret)

C19_Witness ==
    /\ obj = "SocialMediaApp"
    /\ IsCall(last, {"get_following"})
    /\ Len(last.ret) >= 2
    /\ \E i \in DOMAIN last.ret : last.ret[i].privacy = PRIVATE

(* C16: no Facade method consults visibility: two runs that make the same  *)
(* calls on users differing only in privacy get the same return values     *)
(* (the booleans, and the ids in the returned lists and of the returned    *)
(* user), so the lists of a PRIVATE user are fully queryable.              *)
IdsOf(persons) == [i \in DOMAIN persons |-> persons[i].user_id]

\* what a caller sees of a return value once privacy is left out; the list
\* of get_following comes from a set, so its order is not part of it
Visible(call) ==
    IF call.exc # "none" THEN [raised |-> call.exc]
    ELSE IF call.op \in {"add_user", "follow_user", "unfollow_user"} THEN [bool |-> call.ret]
    ELSE IF call.op = "get_following" THEN [ids |-> UserIds(call.ret), len |-> Len(call.ret)]
    ELSE IF call.op \in {"get_followers", "get_all_users"} THEN [list |-> IdsOf(call.ret)]
    ELSE IF call.op = "get_user"
         THEN [user |-> IF call.ret = None THEN <<>> ELSE <<call.ret.user_id, call.ret.name>>]
    ELSE [none |-> TRUE]

C16_PrivacyNotConsulted ==
    obj = "SocialMediaApp x 2" =>
        /\ lastBoth.left.exc = "none"
        /\ lastBoth.right.exc = "none"
        /\ Visible(lastBoth.left) = Visible(lastBoth.right)
        /\ left.graph._adjacency_list = right.graph._adjacency_list
        /\ left.users.keys = right.users.keys

C16_Witness ==
    /\ lastBoth.op = "get_followers"
    /\ DictGet(left.users, lastBoth.left.args[1]) # None
    /\ DictGet(left.users, lastBoth.left.args[1]).privacy = PRIVATE
    /\ DictGet(right.users, lastBoth.left.args[1]).privacy = PUBLIC
    /\ Len(lastBoth.left.ret) >= 1

(* C18: on no menu path (choices 1-8) does main() print an entry of the    *)
(* following list or of the follower list of a PRIVATE user, or the        *)
(* gender, age, location or biography of a PRIVATE user. Choices 2, 3 and  *)
(* 4 test user.privacy first; choice 8 prints the selected follower's      *)
(* following list with no test of the follower's privacy.                  *)
Gated == {"following", "follower", "gender", "age", "location", "biography"}

IsPrivate(app, id) ==
    /\ DictGet(app.users, id) # None
    /\ DictGet(app.users, id).privacy = PRIVATE

C18_MenuChecksPrivacy ==
    obj = "main" =>
        \A line \in shown : line.what \in Gated => ~IsPrivate(App, line.of)

C18_PrivateFollowingPrinted ==
    /\ obj = "main"
    /\ last.op = "8"
    /\ \E line \in shown :
          /\ line.what = "following"
          /\ line.of = "charlie_art"
          /\ line.entry = "eve_music"
          /\ IsPrivate(App, "charlie_art")

(* C20: in the running application (sample users, setup_connections, then  *)
(* any menu choices with any inputs) no user follows themselves: no id is  *)
(* in its own adjacency set. The guard is the comparison of the two        *)
(* selected ids in choice 7.                                               *)
C20_NoSelfFollowInMain ==
    obj = "main" => \A id \in Keys(graph._adjacency_list) : <<id, id>> \notin Edges(graph)

C20_Witness ==
    /\ obj = "main"
    /\ last.op = "7"
    /\ last.ret = "cannot follow themselves"
    /\ last.args[1] # last.args[2]

(* C21: in display_user_selection_menu, typing the user_id of an existing  *)
(* user selects that user (the id returned is the id typed), for every id  *)
(* that menu choice 6 can create, ids made only of digits and the empty id *)
(* included.                                                               *)
C21_TypedIdSelectsUser ==
    obj = "main" =>
        \A id \in Keys(users) : display_user_selection_menu(App, id) = Selected(id)

\* choice 6 created a user "2"; typing 2 at the profile prompt showed bob_dev
C21_DigitIdSelectsByNumber ==
    /\ obj = "main"
    /\ Has(users, "2")
    /\ last.op = "2"
    /\ last.args = <<"2">>
    /\ display_user_selection_menu(App, "2") = Selected("bob_dev")
    /\ Field(DictGet(users, "bob_dev"), "gender") \in shown

\* the empty id is created by choice 6 and is selected by typing nothing
C21_EmptyIdSelected ==
    /\ obj = "main"
    /\ Has(users, "")
    /\ last.op = "2"
    /\ last.args = <<"">>
    /\ Field(DictGet(users, ""), "user_id") \in shown

(* C22: in menu choice 8 the unfollow always succeeds: the followee is     *)
(* taken by index from the follower's current following list, so           *)
(* unfollow_user returns True, the "Unable to unfollow user." branch is    *)
(* never taken, and afterwards the followee is not in the follower's       *)
(* following list.                                                         *)
Unfollowing == obj = "main" /\ last.op = "8" /\ last.ret[1] # "not following anyone"

C22_UnfollowSucceeds ==
    Unfollowing =>
        LET follower_id == display_user_selection_menu(App, last.args[1]).id
            followee_id == last.ret[2]
        IN /\ last.ret[1] = "unfollowed"
           /\ <<follower_id, followee_id>> \notin Edges(graph)
           /\ \A r \in get_following(App, follower_id) : followee_id \notin UserIds(r.ret)

\* a follower with two entries unfollowed one of them and keeps the other
C22_Witness ==
    /\ Unfollowing
    /\ last.ret[1] = "unfollowed"
    /\ \E r \in get_following(App, display_user_selection_menu(App, last.args[1]).id) :
          Len(r.ret) = 1

(* C23: in multithreaded_run, under every interleaving, the worker created *)
(* at loop value i writes only results[i] (no two workers write one slot,  *)
(* none writes the slot of a later value of the loop variable), and the    *)
(* end timestamp is read only after all three workers have terminated,     *)
(* when no slot of results is None.                                        *)
EndTimeRead == mt.at = "returned"

C23_OwnSlotThenJoin ==
    obj = "multithreaded_run" =>
        /\ \A w \in writes : w.slot = w.worker
        /\ \A w1, w2 \in writes : w1.slot = w2.slot => w1.worker = w2.worker
        /\ EndTimeRead =>
              /\ Len(threads) = NumThreads
              /\ \A t \in DOMAIN threads : threads[t].at = "terminated"
              /\ \A k \in DOMAIN results : results[k] # None

\* the first worker stored its list after the loop variable had moved on,
\* the workers finished in another order than they were started, and the
\* end timestamp has been read
C23_Witness ==
    /\ obj = "multithreaded_run"
    /\ EndTimeRead
    /\ writes = {[worker |-> k, slot |-> k] : k \in 0 .. NumThreads - 1}
    /\ results[0] # results[2]
    /\ mt.i = <<2>>

\* a worker runs to its end while the main thread is still starting threads
C23_WorkerOverlapsLoop ==
    /\ obj = "multithreaded_run"
    /\ mt.at = "for"
    /\ mt.i = <<1>>
    /\ threads[1].at = "terminated"
    /\ threads[2].at = "started"

(* C24: folding_hash(ic_number, table_size) raises ValueError and computes *)
(* nothing when ic_number is not exactly 12 decimal digits; otherwise, for *)
(* table_size > 0, it returns the sum of the four 3-digit groups modulo    *)
(* table_size, a value in 0 .. table_size - 1; so the loop of              *)
(* insert_to_hash_table puts every IC in an existing bucket and the bucket *)
(* sizes sum to the number of ICs.                                         *)
TwelveDecimalDigits(text) ==
    Len(text) = 12 /\ \A i \in DOMAIN text : text[i] \in DOMAIN DigitValue

\* the number a group of three decimal digits writes
GroupValue(text, k) ==
    100 * DigitValue[text[3 * k - 2]] + 10 * DigitValue[text[3 * k - 1]] + DigitValue[text[3 * k]]

GroupSum(text) ==
    GroupValue(text, 1) + GroupValue(text, 2) + GroupValue(text, 3) + GroupValue(text, 4)

RECURSIVE TotalSize(_, _)
TotalSize(table, k) ==
    IF k \notin DOMAIN table THEN 0 ELSE Len(table[k]) + TotalSize(table, k + 1)

Holds(bucket, ic) == \E i \in DOMAIN bucket : bucket[i] = ic

C24_FoldingHashContract ==
    /\ (obj = "Q1" /\ hashcall.op = "folding_hash") =>
          LET ic_number == hashcall.args[1]
              table_size == hashcall.args[2]
          IN /\ ~TwelveDecimalDigits(ic_number) =>
                   hashcall.exc = "ValueError" /\ hashcall.ret = None
             /\ (TwelveDecimalDigits(ic_number) /\ table_size > 0) =>
                   /\ hashcall.exc = "none"
                   /\ hashcall.ret = GroupSum(ic_number) % table_size
                   /\ hashcall.ret \in 0 .. table_size - 1
    /\ (obj = "Q1" /\ hashcall.op = "insert_to_hash_table") =>
          LET ic_list == hashcall.args[1]
              table_size == hashcall.args[2]
              table == hashcall.table
          IN ((\A i \in DOMAIN ic_list : TwelveDecimalDigits(ic_list[i])) /\ table_size > 0) =>
                /\ hashcall.exc \notin {"ValueError", "IndexError"}
                /\ DOMAIN table = 0 .. table_size - 1
                /\ \A i \in DOMAIN ic_list :
                      Holds(table[GroupSum(ic_list[i]) % table_size], ic_list[i])
                /\ TotalSize(table, 0) = Len(ic_list)

\* two different ICs with the same hash were chained in one bucket of seven
C24_Witness ==
    /\ obj = "Q1"
    /\ hashcall.op = "insert_to_hash_table"
    /\ hashcall.args[2] = 7
    /\ hashcall.exc = "none"
    /\ hashcall.ret.collisions = 1
    /\ Len(hashcall.table[0]) = 2
    /\ hashcall.table[0][1] # hashcall.table[0][2]

\* a text of 12 digit-like characters that are not all decimal digits is
\* rejected by int(), also with ValueError
C24_RejectedByInt ==
    /\ obj = "Q1"
    /\ hashcall.op = "folding_hash"
    /\ Len(hashcall.args[1]) = 12
    /\ str_isdigit(hashcall.args[1])
    /\ hashcall.exc = "ValueError"

\* with an empty list the table is built and the division for rate raises
C24_EmptyListRaises ==
    /\ obj = "Q1"
    /\ hashcall.op = "insert_to_hash_table"
    /\ hashcall.args[1] = <<>>
    /\ hashcall.args[2] = 7
    /\ hashcall.exc = "ZeroDivisionError"
    /\ TotalSize(hashcall.table, 0) = 0

====
